---------------------------- MODULE Spec2Model ----------------------------
(***************************************************************************)
(* A model of the in3120 lexical search toolkit: the trie-driven           *)
(* StringFinder, the SuffixArray phrase-prefix search, the in-memory       *)
(* inverted index and the PostingsMerger.                                  *)
(*                                                                         *)
(* Strings are sequences of one-character strings.  Offsets are Python     *)
(* offsets: 0-based, ranges are half-open [start, end).                    *)
(***************************************************************************)
EXTENDS Integers, Sequences, FiniteSets, TLC

\* ------------------------------------------------------------------ bounds

\* Longest text buffer handed to StringFinder.scan.
MaxBuf == 6

\* ------------------------------------------------------- strings and text

Chars == {"a", "b", " "}

\* Python's buffer[a:b].
Slice(s, a, b) == SubSeq(s, a + 1, b)

IsPrefix(p, s) == Len(p) <= Len(s) /\ SubSeq(s, 1, Len(p)) = p

\* All character sequences of length at most n.
StringsUpTo(n) == UNION {[1..k -> Chars] : k \in 0..n}

\* SimpleTokenizer: a token is a maximal run of word characters.
IsWord(c) == c # " "

TokenEnd(buf, i) ==
    CHOOSE j \in i..Len(buf) :
        /\ \A k \in i..j : IsWord(buf[k])
        /\ (j = Len(buf) \/ ~IsWord(buf[j + 1]))

RECURSIVE RangesFrom(_, _)
RangesFrom(buf, i) ==
    IF i > Len(buf) THEN <<>>
    ELSE IF ~IsWord(buf[i]) THEN RangesFrom(buf, i + 1)
    ELSE LET e == TokenEnd(buf, i)
         IN  <<(<<i - 1, e>>)>> \o RangesFrom(buf, e + 1)

\* Tokenizer.ranges, Tokenizer.strings, Tokenizer.tokens.
Ranges(buf) == RangesFrom(buf, 1)

TokStrings(buf) ==
    LET r == Ranges(buf)
    IN  [k \in 1..Len(r) |-> Slice(buf, r[k][1], r[k][2])]

Tokens(buf) ==
    LET r == Ranges(buf)
    IN  [k \in 1..Len(r) |-> <<Slice(buf, r[k][1], r[k][2]), r[k]>>]

\* " ".join(strs)
RECURSIVE Join(_)
Join(strs) ==
    IF Len(strs) = 0 THEN <<>>
    ELSE IF Len(strs) = 1 THEN strs[1]
    ELSE strs[1] \o <<" ">> \o Join(Tail(strs))

\* --------------------------------------------------------------- variables

VARIABLES
    \* StringFinder.scan
    trie,       \* the dictionary entries the trie spells (its final paths)
    buffer,     \* the text being scanned
    states,     \* the working list of (trie node, match start offset)
    matches,    \* the matches yielded so far, in order
    ti,         \* index of the current token (1-based)
    si,         \* position of the list iterator of "for state in states"
    pc          \* where scan is

fvars == <<trie, buffer, states, matches, ti, si, pc>>

VARIABLES
    \* SuffixArray
    corpus,            \* the documents, in the order the corpus iterates them
    fields,            \* the configured field names
    haystack,          \* the (document id, searchable content) pairs
    suffixes,          \* the sorted (haystack index, start offset) pairs
    query,             \* the query of the evaluate call in progress
    options,           \* its options
    normalized_query,
    idx_of_needle,
    doc_dict,          \* (document id, count) pairs in insertion order
    result,            \* the results returned by the last evaluate call
    spc                \* where evaluate is

svars == <<corpus, fields, haystack, suffixes, query, options,
           normalized_query, idx_of_needle, doc_dict, result, spc>>

VARIABLES
    \* InMemoryInvertedIndex
    icorpus,           \* the documents, in the order the corpus iterates them
    ifields,           \* the configured field names
    dictionary,        \* the terms; the term at position k has term id k - 1
    posting_lists,     \* one posting list per term id
    lookup,            \* the last query call and what it returned
    ipc                \* "new" before __build_index has run, then "built"

ivars == <<icorpus, ifields, dictionary, posting_lists, lookup, ipc>>

VARIABLES
    \* PostingsMerger
    in_a, in_b,        \* the two posting sequences handed to the merger
    mop,               \* "intersection" or "union"
    p1, p2,            \* what the two iterators have not handed out yet
    posting1, posting2,
    merged,            \* the postings yielded so far
    mpc                \* where the generator is

mvars == <<in_a, in_b, mop, p1, p2, posting1, posting2, merged, mpc>>

vars == <<fvars, svars, ivars, mvars>>

OtherThanFinder == <<svars, ivars, mvars>>
OtherThanSuffix == <<fvars, ivars, mvars>>
OtherThanIndex == <<fvars, svars, mvars>>
OtherThanMerger == <<fvars, svars, ivars>>

\* next(p, None) on an exhausted iterator.
NoPosting == <<>>

\* Each component at rest, for the specifications of the other components.
FinderIdle ==
    /\ trie = {}
    /\ buffer = <<>>
    /\ states = <<>>
    /\ matches = <<>>
    /\ ti = 1
    /\ si = 0
    /\ pc = "done"

IndexIdle ==
    /\ icorpus = <<>>
    /\ ifields = <<>>
    /\ dictionary = <<>>
    /\ posting_lists = <<>>
    /\ lookup = [op |-> "none"]
    /\ ipc = "new"

MergerIdle ==
    /\ in_a = <<>>
    /\ in_b = <<>>
    /\ mop = "union"
    /\ p1 = <<>>
    /\ p2 = <<>>
    /\ posting1 = NoPosting
    /\ posting2 = NoPosting
    /\ merged = <<>>
    /\ mpc = "done"

SuffixIdle ==
    /\ corpus = <<>>
    /\ fields = <<>>
    /\ haystack = <<>>
    /\ suffixes = <<>>
    /\ query = <<>>
    /\ options = [hit_count |-> 0, has_hit_count |-> FALSE]
    /\ normalized_query = <<>>
    /\ idx_of_needle = 0
    /\ doc_dict = <<>>
    /\ result = <<>>
    /\ spc = "idle"

\* -------------------------------------------------------------------- Trie

\* A trie node is the path that leads to it from the root; the root is the
\* empty path.  NoNode is consume's "no such edge".
NoNode == <<"None">>
Root == <<>>

\* Trie.add: every string is stored as its tokens joined by single spaces.
TrieAdd(strings) == {Join(TokStrings(s)) : s \in strings}

\* Trie.consume for one character.
Consume(node, c) ==
    IF node = NoNode THEN NoNode
    ELSE IF \E e \in trie : IsPrefix(node \o <<c>>, e) THEN node \o <<c>>
    ELSE NoNode

\* Trie.consume for a whole prefix.
RECURSIVE ConsumeAll(_, _)
ConsumeAll(node, s) ==
    IF node = NoNode \/ Len(s) = 0 THEN node
    ELSE ConsumeAll(Consume(node, s[1]), Tail(s))

IsFinal(node) == node \in trie

\* ------------------------------------------------------- StringFinder.scan

\* The dictionary strings a trie is built from.
Entries ==
    { <<"a">>, <<"a", " ", "b">>, <<"a", " ", "a">>, <<"a", " ", "a", " ", "a">>,
      <<"a", "b">> }

\* list.remove(x): drops the first element equal to x.
RECURSIVE RemoveFirst(_, _)
RemoveFirst(list, x) ==
    IF Len(list) = 0 THEN list
    ELSE IF Head(list) = x THEN Tail(list)
    ELSE <<Head(list)>> \o RemoveFirst(Tail(list), x)

\* The node a state reaches after the first k characters of the token, or
\* NoNode once an edge was missing.
WalkTo(node, token, k) == ConsumeAll(node, SubSeq(token, 1, k))

\* The character positions of the token at which the walk stands on a final
\* node (the walk breaks at the first missing edge).
FinalHits(node, token) ==
    {k \in 1..Len(token) : WalkTo(node, token, k) # NoNode
                            /\ IsFinal(WalkTo(node, token, k))}

\* The match a live state yields.
StateMatchWrongEnd(state, rng) ==
    [match |-> Join(TokStrings(Slice(buffer, state[2], rng[2]))),
     range |-> <<state[2], rng[1]>>]

StateMatch(state, rng) ==
    [match |-> Join(TokStrings(Slice(buffer, state[2], rng[2]))),
     range |-> <<state[2], rng[2]>>]

\* The match the root-seeded attempt yields.
RootMatch(token, rng) == [match |-> token, range |-> rng]

\* The state appended for the next token: states.append((trie, state[1])).
ContinuationSameNode(state, sep) == <<state[1], state[2]>>

Continuation(state, sep) == <<sep, state[2]>>

\* n copies of x.
Repeat(x, n) == [k \in 1..n |-> x]

FinderInit ==
    /\ SuffixIdle /\ IndexIdle /\ MergerIdle
    /\ trie \in {TrieAdd(d) : d \in SUBSET Entries}
    /\ buffer \in StringsUpTo(MaxBuf)
    /\ states = <<>>
    /\ matches = <<>>
    /\ ti = 1
    /\ si = 0
    /\ pc = "for_token"

\* for (token, rng) in tokens: the next token, or the end of the scan.
NextToken ==
    /\ pc = "for_token"
    /\ IF ti <= Len(Tokens(buffer))
       THEN pc' = "for_state" /\ si' = 0
       ELSE pc' = "done" /\ si' = si
    /\ UNCHANGED <<trie, buffer, states, matches, ti>>
    /\ UNCHANGED OtherThanFinder

\* One iteration of "for state in states": the list iterator hands out
\* states[si] and moves on; the body appends to and removes from the list
\* it iterates.
ProcessState ==
    /\ pc = "for_state"
    /\ si < Len(states)
    /\ LET state == states[si + 1]
           token == Tokens(buffer)[ti][1]
           rng   == Tokens(buffer)[ti][2]
           hits  == FinalHits(state[1], token)
           found == hits # {}
           last  == WalkTo(state[1], token, Len(token))
           sep   == Consume(last, " ")
           kept  == IF last # NoNode /\ sep # NoNode
                    THEN Append(states, Continuation(state, sep))
                    ELSE states
       IN  /\ matches' = matches \o Repeat(StateMatch(state, rng), Cardinality(hits))
           /\ states' = IF found THEN kept ELSE RemoveFirst(kept, state)
    /\ si' = si + 1
    /\ UNCHANGED <<trie, buffer, ti, pc>>
    /\ UNCHANGED OtherThanFinder

\* The list iterator is exhausted.
EndStates ==
    /\ pc = "for_state"
    /\ si >= Len(states)
    /\ pc' = "root"
    /\ UNCHANGED <<trie, buffer, states, matches, ti, si>>
    /\ UNCHANGED OtherThanFinder

\* The attempt seeded at the root for the current token.
RootStep ==
    /\ pc = "root"
    /\ LET token == Tokens(buffer)[ti][1]
           rng   == Tokens(buffer)[ti][2]
           node  == ConsumeAll(Root, token)
           sep   == Consume(node, " ")
       IN  /\ matches' = IF node # NoNode /\ IsFinal(node)
                         THEN Append(matches, RootMatch(token, rng))
                         ELSE matches
           /\ states' = IF node # NoNode /\ sep # NoNode
                        THEN Append(states, <<sep, rng[1]>>)
                        ELSE states
    /\ ti' = ti + 1
    /\ pc' = "for_token"
    /\ UNCHANGED <<trie, buffer, si>>
    /\ UNCHANGED OtherThanFinder

FinderNext == NextToken \/ ProcessState \/ EndStates \/ RootStep

SpecFinder == FinderInit /\ [][FinderNext]_vars

\* ------------------------------------------------- StringFinder properties

\* The entry spelled by tokens i..j of the buffer.
Phrase(i, j) == Join(SubSeq(TokStrings(buffer), i, j))

\* C1: once the scan is done, every dictionary entry that occurs in the
\* buffer as consecutive whole tokens i..j has been yielded with the range
\* from the start of token i to the end of token j.
C1_AllEntriesFound ==
    pc = "done" =>
        \A i \in 1..Len(Ranges(buffer)) : \A j \in i..Len(Ranges(buffer)) :
            Phrase(i, j) \in trie =>
                \E k \in 1..Len(matches) :
                    matches[k] = [match |-> Phrase(i, j),
                                  range |-> <<Ranges(buffer)[i][1], Ranges(buffer)[j][2]>>]

\* C2: every yielded match is a dictionary entry, and is the tokens of the
\* buffer inside its range joined by single spaces.
C2_OnlyEntriesYielded ==
    \A k \in 1..Len(matches) :
        /\ matches[k].match \in trie
        /\ matches[k].match =
               Join(TokStrings(Slice(buffer, matches[k].range[1], matches[k].range[2])))

\* C10: every yielded match starts at the start offset of a token and ends at
\* the end offset of a token at or after it.
C10_TokenBoundaries ==
    \A k \in 1..Len(matches) :
        \E i \in 1..Len(Ranges(buffer)) : \E j \in i..Len(Ranges(buffer)) :
            /\ matches[k].range[1] = Ranges(buffer)[i][1]
            /\ matches[k].range[2] = Ranges(buffer)[j][2]

\* A match spanning several tokens was yielded while the walk stood on a
\* final node in the middle of a token.
C10_Witness ==
    /\ pc = "done"
    /\ \E k \in 1..Len(matches) :
           /\ matches[k].match \notin trie
           /\ \E i \in 1..Len(Ranges(buffer)) : \E j \in (i + 1)..Len(Ranges(buffer)) :
                  matches[k].range = <<Ranges(buffer)[i][1], Ranges(buffer)[j][2]>>

\* ------------------------------------------------------------- SuffixArray

\* Most documents of a corpus.
MaxDocs == 3

\* Python compares strings by code point.
Ord(c) == CASE c = " " -> 32 [] c = "A" -> 65 [] c = "B" -> 66
            [] c = "a" -> 97 [] c = "b" -> 98

RECURSIVE StrLess(_, _)
StrLess(s, t) ==
    IF Len(t) = 0 THEN FALSE
    ELSE IF Len(s) = 0 THEN TRUE
    ELSE IF Ord(s[1]) # Ord(t[1]) THEN Ord(s[1]) < Ord(t[1])
    ELSE StrLess(Tail(s), Tail(t))

\* SimpleNormalizer.normalize folds case; canonicalize leaves these
\* characters as they are.
Lower(c) == CASE c = "A" -> "a" [] c = "B" -> "b" [] OTHER -> c
NormalizerNormalize(s) == [k \in 1..Len(s) |-> Lower(s[k])]
Canonicalize(s) == s

\* The contents a document may have.
DocContents ==
    { [title |-> <<"a">>, body |-> <<"a">>],
      [title |-> <<"a", "b">>, body |-> <<"a", "b">>],
      [title |-> <<>>, body |-> <<"a">>],
      [title |-> <<"A">>, body |-> <<"b", " ", " ", "a">>] }

FieldChoices == {<<"body">>, <<"title", "body">>}

Queries ==
    { <<>>, <<"a">>, <<"A">>, <<"a", "b">>, <<"b", " ", "a">>, <<" ", "b">> }

\* InMemoryCorpus: the document at position k has document_id k - 1.
Corpora ==
    UNION { { [k \in 1..n |-> [document_id |-> k - 1, content |-> c[k]]] :
                c \in [1..n -> DocContents] } : n \in 1..MaxDocs }

\* doc[field]
Field(doc, f) == IF f = "title" THEN doc.content.title ELSE doc.content.body

\* SuffixArray.__normalize
Normalize(buf) == Join(TokStrings(Canonicalize(NormalizerNormalize(buf))))

\* The (document id, searchable content) pairs.
BuildHaystack(c, fs) ==
    [k \in 1..Len(c) |->
        <<c[k].document_id, Normalize(Join([i \in 1..Len(fs) |-> Field(c[k], fs[i])]))>>]

\* SuffixArray.__suffix_of_doc: the haystack is indexed by the suffix's first
\* component.
SuffixOfDoc(hay, suffix) ==
    LET text == hay[suffix[1] + 1][2]
    IN  SubSeq(text, suffix[2] + 1, Len(text))

\* The unsorted suffix pointers: one per token start of every haystack text.
RECURSIVE AllSuffixes(_, _)
AllSuffixes(hay, k) ==
    IF k > Len(hay) THEN <<>>
    ELSE LET r == Ranges(hay[k][2])
         IN  [i \in 1..Len(r) |-> <<hay[k][1], r[i][1]>>] \o AllSuffixes(hay, k + 1)

\* list.sort(key=...) is stable: x goes behind every element whose key is
\* not greater than its own.
RECURSIVE InsertSorted(_, _, _)
InsertSorted(hay, sorted, x) ==
    IF Len(sorted) = 0 THEN <<x>>
    ELSE IF StrLess(SuffixOfDoc(hay, x), SuffixOfDoc(hay, Head(sorted)))
         THEN <<x>> \o sorted
         ELSE <<Head(sorted)>> \o InsertSorted(hay, Tail(sorted), x)

RECURSIVE SortSuffixes(_, _)
SortSuffixes(hay, list) ==
    IF Len(list) = 0 THEN <<>>
    ELSE InsertSorted(hay, SortSuffixes(hay, SubSeq(list, 1, Len(list) - 1)),
                      list[Len(list)])

\* SuffixArray.__build_suffix_array
BuildSuffixArray(hay) == SortSuffixes(hay, AllSuffixes(hay, 1))

\* The suffix string at a 0-based position of the suffix array.
SuffixAt(i) == SuffixOfDoc(haystack, suffixes[i + 1])

\* SuffixArray.__binary_search
RECURSIVE SearchFrom(_, _, _)
SearchFrom(left, right, needle) ==
    IF left > right THEN left
    ELSE LET middle == (left + right) \div 2
             suffix == SuffixAt(middle)
         IN  IF StrLess(suffix, needle)
             THEN SearchFrom(middle + 1, right, needle)
             ELSE IF StrLess(needle, suffix)
             THEN SearchFrom(left, middle - 1, needle)
             ELSE middle

BinarySearch(needle) == SearchFrom(0, Len(suffixes) - 1, needle)

\* SuffixArray.__doc_id_from_suffix
DocIdFromSuffix(suffix) == haystack[suffix[1] + 1][1]

\* doc_dict[doc_id] += 1, or doc_dict[doc_id] = 1 for a new key (a new key
\* goes last).
Increment(dict, doc_id) ==
    IF \E k \in 1..Len(dict) : dict[k][1] = doc_id
    THEN [k \in 1..Len(dict) |->
            IF dict[k][1] = doc_id THEN <<doc_id, dict[k][2] + 1>> ELSE dict[k]]
    ELSE Append(dict, <<doc_id, 1>>)

\* The result records of a sequence of (score, doc_id) winners.
Results(winners) ==
    [k \in 1..Len(winners) |->
        [score |-> winners[k][1], document |-> corpus[winners[k][2] + 1].document_id]]

\* Sieve(size).sift(...), winners(): the size best (score, doc_id) pairs,
\* best first, ties in any order.
SieveWinners(dict, size) ==
    LET n == IF size < Len(dict) THEN size ELSE Len(dict)
    IN  { w \in [1..n -> {<<dict[k][2], dict[k][1]>> : k \in 1..Len(dict)}] :
            /\ \A i, j \in 1..n : i # j => w[i] # w[j]
            /\ \A i, j \in 1..n : i < j => w[i][1] >= w[j][1]
            /\ \A k \in 1..Len(dict) :
                   (\A i \in 1..n : w[i] # <<dict[k][2], dict[k][1]>>)
                       => \A i \in 1..n : w[i][1] >= dict[k][2] }

\* Without hit_count: the dictionary's items, in the dictionary's order.
AllWinners(dict) == [k \in 1..Len(dict) |-> <<dict[k][2], dict[k][1]>>]

OptionChoices ==
    { [hit_count |-> 0, has_hit_count |-> FALSE],
      [hit_count |-> 1, has_hit_count |-> TRUE],
      [hit_count |-> 2, has_hit_count |-> TRUE] }

SuffixInit ==
    /\ FinderIdle /\ IndexIdle /\ MergerIdle
    /\ corpus \in Corpora
    /\ fields \in FieldChoices
    /\ haystack = BuildHaystack(corpus, fields)
    /\ suffixes = BuildSuffixArray(haystack)
    /\ query = <<>>
    /\ options = [hit_count |-> 0, has_hit_count |-> FALSE]
    /\ normalized_query = <<>>
    /\ idx_of_needle = 0
    /\ doc_dict = <<>>
    /\ result = <<>>
    /\ spc = "idle"

\* evaluate(query, options) up to the binary search.
Evaluate ==
    /\ spc \in {"idle", "returned"}
    /\ \E q \in Queries, o \in OptionChoices :
        /\ query' = q
        /\ options' = o
        /\ normalized_query' = Normalize(q)
        /\ doc_dict' = <<>>
        /\ IF Len(Normalize(q)) = 0
           THEN /\ result' = <<>>
                /\ idx_of_needle' = 0
                /\ spc' = "returned"
           ELSE /\ result' = <<>>
                /\ idx_of_needle' = BinarySearch(Normalize(q))
                /\ spc' = "searched"
    /\ UNCHANGED <<corpus, fields, haystack, suffixes>>
    /\ UNCHANGED OtherThanSuffix

\* if idx_of_needle >= len(self.__suffixes): return []
CheckFound ==
    /\ spc = "searched"
    /\ spc' = IF idx_of_needle >= Len(suffixes) THEN "returned" ELSE "scan"
    /\ UNCHANGED <<corpus, fields, haystack, suffixes, query, options,
                   normalized_query, idx_of_needle, doc_dict, result>>
    /\ UNCHANGED OtherThanSuffix

\* One iteration of the while loop over the matching suffixes.
ScanStep ==
    /\ spc = "scan"
    /\ idx_of_needle < Len(suffixes)
    /\ IsPrefix(normalized_query, SuffixAt(idx_of_needle))
    /\ doc_dict' = Increment(doc_dict, DocIdFromSuffix(suffixes[idx_of_needle + 1]))
    /\ idx_of_needle' = idx_of_needle + 1
    /\ UNCHANGED <<corpus, fields, haystack, suffixes, query, options,
                   normalized_query, result, spc>>
    /\ UNCHANGED OtherThanSuffix

\* The loop ends; the winners are ranked and returned.
Rank ==
    /\ spc = "scan"
    /\ IF idx_of_needle >= Len(suffixes) THEN TRUE
       ELSE ~IsPrefix(normalized_query, SuffixAt(idx_of_needle))
    /\ IF options.has_hit_count
       THEN \E w \in SieveWinners(doc_dict, options.hit_count) : result' = Results(w)
       ELSE result' = Results(AllWinners(doc_dict))
    /\ spc' = "returned"
    /\ UNCHANGED <<corpus, fields, haystack, suffixes, query, options,
                   normalized_query, idx_of_needle, doc_dict>>
    /\ UNCHANGED OtherThanSuffix

SuffixNext == Evaluate \/ CheckFound \/ ScanStep \/ Rank

SpecSuffix == SuffixInit /\ [][SuffixNext]_vars

\* ---------------------------------------------------- SuffixArray properties

\* The smallest 0-based position whose suffix is >= the needle, or the
\* length of the array when there is none.
LowerBound(needle) ==
    IF \E i \in 0..(Len(suffixes) - 1) : ~StrLess(SuffixAt(i), needle)
    THEN CHOOSE i \in 0..(Len(suffixes) - 1) :
            /\ ~StrLess(SuffixAt(i), needle)
            /\ \A j \in 0..(i - 1) : StrLess(SuffixAt(j), needle)
    ELSE Len(suffixes)

\* The number of token-start suffixes of a document's haystack text that
\* begin with the needle.
Occurrences(k, needle) ==
    LET text == haystack[k][2]
    IN  Cardinality({i \in 1..Len(Ranges(text)) :
            IsPrefix(needle, SubSeq(text, Ranges(text)[i][1] + 1, Len(text)))})

\* C3: the binary search returns the leftmost position: the smallest index
\* whose suffix is >= the needle, which is the insertion position when no
\* suffix matches.
C3_LeftmostPosition ==
    spc = "searched" => idx_of_needle = LowerBound(normalized_query)

\* C4: without hit_count, a non-empty normalized query returns exactly one
\* result per document with an occurrence, scored with the number of
\* token-start suffixes of the document that begin with the query.
C4_ExactCounts ==
    (spc = "returned" /\ ~options.has_hit_count /\ Len(normalized_query) > 0) =>
        /\ \A k \in 1..Len(corpus) :
               Occurrences(k, normalized_query) > 0 =>
                   Cardinality({i \in 1..Len(result) :
                       result[i] = [score |-> Occurrences(k, normalized_query),
                                    document |-> corpus[k].document_id]}) = 1
        /\ \A i \in 1..Len(result) :
               /\ Occurrences(result[i].document + 1, normalized_query) > 0
               /\ \A j \in 1..Len(result) :
                      result[j].document = result[i].document => i = j

\* C5: without hit_count the results come in non-increasing order of score.
C5_DescendingScores ==
    (spc = "returned" /\ ~options.has_hit_count) =>
        \A i, j \in 1..Len(result) : i < j => result[i].score >= result[j].score

\* --------------------------------------------------- InMemoryInvertedIndex

\* A corpus whose documents carry distinct ids and come in any order.
IndexCorpora ==
    UNION { { [k \in 1..n |-> [document_id |-> ids[k], content |-> c[k]]] :
                ids \in {f \in [1..n -> 0..(MaxDocs - 1)] :
                            \A i, j \in 1..n : i # j => f[i] # f[j]},
                c \in [1..n -> DocContents] } : n \in 0..MaxDocs }

\* InMemoryInvertedIndex.get_terms
GetTerms(buf) ==
    LET toks == TokStrings(buf)
    IN  [k \in 1..Len(toks) |-> NormalizerNormalize(toks[k])]

\* The (term, document_id) pairs of one document, field by field.
RECURSIVE DocTokens(_, _, _)
DocTokens(doc, fs, i) ==
    IF i > Len(fs) THEN <<>>
    ELSE LET terms == GetTerms(Field(doc, fs[i]))
         IN  [k \in 1..Len(terms) |-> <<terms[k], doc.document_id>>]
                 \o DocTokens(doc, fs, i + 1)

\* token_sequence
RECURSIVE TokenSequence(_, _, _)
TokenSequence(c, fs, k) ==
    IF k > Len(c) THEN <<>>
    ELSE DocTokens(c[k], fs, 1) \o TokenSequence(c, fs, k + 1)

\* sorted(token_sequence, key=lambda x: x[0]) is stable.
RECURSIVE InsertByTerm(_, _)
InsertByTerm(sorted, x) ==
    IF Len(sorted) = 0 THEN <<x>>
    ELSE IF StrLess(x[1], Head(sorted)[1]) THEN <<x>> \o sorted
    ELSE <<Head(sorted)>> \o InsertByTerm(Tail(sorted), x)

RECURSIVE SortByTerm(_)
SortByTerm(list) ==
    IF Len(list) = 0 THEN <<>>
    ELSE InsertByTerm(SortByTerm(SubSeq(list, 1, Len(list) - 1)), list[Len(list)])

\* postings: term -> document ids, both in the order of first insertion.
RECURSIVE GroupByTerm(_, _)
GroupByTerm(seq, postings) ==
    IF Len(seq) = 0 THEN postings
    ELSE LET term == Head(seq)[1]
             id   == Head(seq)[2]
         IN  IF \E k \in 1..Len(postings) : postings[k][1] = term
             THEN GroupByTerm(Tail(seq),
                      [k \in 1..Len(postings) |->
                          IF postings[k][1] = term
                          THEN <<term, Append(postings[k][2], id)>>
                          ELSE postings[k]])
             ELSE GroupByTerm(Tail(seq), Append(postings, <<term, <<id>>>>))

\* Counter(document_ids).items(): (document id, count), in the order the
\* ids first occur.
RECURSIVE CounterItemsNoCount(_, _)
CounterItemsNoCount(ids, acc) ==
    IF Len(ids) = 0 THEN acc
    ELSE CounterItemsNoCount(Tail(ids),
             IF \E k \in 1..Len(acc) : acc[k][1] = Head(ids)
             THEN acc ELSE Append(acc, <<Head(ids), 1>>))

RECURSIVE CounterItems(_, _)
CounterItems(ids, acc) ==
    IF Len(ids) = 0 THEN acc
    ELSE CounterItems(Tail(ids), Increment(acc, Head(ids)))

\* Dictionary.get_term_id: the term's id, or -1 for None.
GetTermId(term) ==
    IF \E k \in 1..Len(dictionary) : dictionary[k] = term
    THEN (CHOOSE k \in 1..Len(dictionary) : dictionary[k] = term) - 1
    ELSE -1

\* InMemoryInvertedIndex.get_postings_iterator
GetPostingsIterator(term) ==
    IF GetTermId(term) = -1 THEN <<>> ELSE posting_lists[GetTermId(term) + 1]

\* InMemoryInvertedIndex.get_document_frequency
GetDocumentFrequency(term) ==
    IF GetTermId(term) = -1 THEN 0 ELSE Len(posting_lists[GetTermId(term) + 1])

LookupTerms == { <<"a">>, <<"b">>, <<"a", "b">>, <<"A">>, <<"b", "b">> }

IndexInit ==
    /\ FinderIdle /\ SuffixIdle /\ MergerIdle
    /\ icorpus \in IndexCorpora
    /\ ifields \in FieldChoices
    /\ dictionary = <<>>
    /\ posting_lists = <<>>
    /\ lookup = [op |-> "none"]
    /\ ipc = "new"

\* InMemoryInvertedIndex.__build_index
BuildIndex ==
    /\ ipc = "new"
    /\ LET postings == GroupByTerm(SortByTerm(TokenSequence(icorpus, ifields, 1)), <<>>)
       IN  /\ dictionary' = [k \in 1..Len(postings) |-> postings[k][1]]
           /\ posting_lists' =
                  [k \in 1..Len(postings) |-> CounterItems(postings[k][2], <<>>)]
    /\ ipc' = "built"
    /\ UNCHANGED <<icorpus, ifields, lookup>>
    /\ UNCHANGED OtherThanIndex

\* A client calls get_postings_iterator(term) and drains the iterator.
CallGetPostingsIterator ==
    /\ ipc = "built"
    /\ \E term \in LookupTerms :
           lookup' = [op |-> "postings", term |-> term,
                      postings |-> GetPostingsIterator(term)]
    /\ UNCHANGED <<icorpus, ifields, dictionary, posting_lists, ipc>>
    /\ UNCHANGED OtherThanIndex

\* A client calls get_document_frequency(term).
CallGetDocumentFrequency ==
    /\ ipc = "built"
    /\ \E term \in LookupTerms :
           lookup' = [op |-> "df", term |-> term, df |-> GetDocumentFrequency(term)]
    /\ UNCHANGED <<icorpus, ifields, dictionary, posting_lists, ipc>>
    /\ UNCHANGED OtherThanIndex

IndexNext == BuildIndex \/ CallGetPostingsIterator \/ CallGetDocumentFrequency

SpecIndex == IndexInit /\ [][IndexNext]_vars

\* ------------------------------------------------------- index properties

\* The number of tokens of the text that normalize to the term.
CountIn(buf, term) ==
    Cardinality({k \in 1..Len(TokStrings(buf)) :
                    NormalizerNormalize(TokStrings(buf)[k]) = term})

RECURSIVE SumOver(_, _, _, _)
SumOver(doc, fs, i, term) ==
    IF i > Len(fs) THEN 0
    ELSE CountIn(Field(doc, fs[i]), term) + SumOver(doc, fs, i + 1, term)

\* The occurrences of the term over the configured fields of document k.
TermCount(k, term) == SumOver(icorpus[k], ifields, 1, term)

\* C6: every posting list of the built index is strictly increasing by
\* document id.
C6_PostingListsIncreasing ==
    ipc = "built" =>
        \A t \in 1..Len(posting_lists) :
            \A i, j \in 1..Len(posting_lists[t]) :
                i < j => posting_lists[t][i][1] < posting_lists[t][j][1]

\* C7: the postings returned for a term are exactly one (document id, term
\* frequency) per document the term occurs in, and the document frequency
\* is the number of those documents; an unknown term gives none and 0.
C7_PostingsAndFrequency ==
    /\ lookup.op = "postings" =>
          /\ \A k \in 1..Len(icorpus) :
                 TermCount(k, lookup.term) > 0 =>
                     Cardinality({i \in 1..Len(lookup.postings) :
                         lookup.postings[i][1] = icorpus[k].document_id}) = 1
          /\ \A i \in 1..Len(lookup.postings) :
                 \E k \in 1..Len(icorpus) :
                     /\ icorpus[k].document_id = lookup.postings[i][1]
                     /\ TermCount(k, lookup.term) > 0
                     /\ lookup.postings[i][2] = TermCount(k, lookup.term)
    /\ lookup.op = "df" =>
          lookup.df = Cardinality({k \in 1..Len(icorpus) : TermCount(k, lookup.term) > 0})

\* A term that occurs twice in one document and once in another was looked
\* up and came back with a posting for each.
C7_Witness ==
    /\ lookup.op = "postings"
    /\ \E k \in 1..Len(icorpus) : TermCount(k, lookup.term) = 2
    /\ \E k \in 1..Len(icorpus) : TermCount(k, lookup.term) = 1
    /\ Len(lookup.postings) >= 2

\* ---------------------------------------------------------- PostingsMerger

TermFrequencies == {1, 2}

\* The posting sequences that are strictly increasing by document id.
SortedPostings ==
    { s \in UNION {[1..n -> (0..(MaxDocs - 1)) \X TermFrequencies] : n \in 0..MaxDocs} :
        \A i, j \in 1..Len(s) : i < j => s[i][1] < s[j][1] }

Min(a, b) == IF a < b THEN a ELSE b
Max(a, b) == IF a > b THEN a ELSE b

\* next(p, None)
NextOf(p) == IF Len(p) = 0 THEN NoPosting ELSE Head(p)
RestOf(p) == IF Len(p) = 0 THEN p ELSE Tail(p)

MergerInit ==
    /\ FinderIdle /\ SuffixIdle /\ IndexIdle
    /\ in_a \in SortedPostings
    /\ in_b \in SortedPostings
    /\ mop \in {"intersection", "union"}
    /\ p1 = in_a
    /\ p2 = in_b
    /\ posting1 = NoPosting
    /\ posting2 = NoPosting
    /\ merged = <<>>
    /\ mpc = "start"

\* posting1 = next(p1, None); posting2 = next(p2, None)
MergeStart ==
    /\ mpc = "start"
    /\ posting1' = NextOf(p1) /\ p1' = RestOf(p1)
    /\ posting2' = NextOf(p2) /\ p2' = RestOf(p2)
    /\ mpc' = "loop"
    /\ UNCHANGED <<in_a, in_b, mop, merged>>
    /\ UNCHANGED OtherThanMerger

\* Which iterator(s) one round of intersection advances.
IntersectionBranchSwapped(a, b) ==
    IF a[1] = b[1] THEN "both" ELSE IF a[1] < b[1] THEN "second" ELSE "first"

IntersectionBranch(a, b) ==
    IF a[1] = b[1] THEN "both" ELSE IF a[1] < b[1] THEN "first" ELSE "second"

\* One round of intersection's while loop.
IntersectionStep ==
    /\ mpc = "loop" /\ mop = "intersection"
    /\ posting1 # NoPosting /\ posting2 # NoPosting
    /\ LET branch == IntersectionBranch(posting1, posting2)
       IN  /\ merged' = IF branch = "both"
                         THEN Append(merged, <<posting1[1], Min(posting1[2], posting2[2])>>)
                         ELSE merged
           /\ IF branch \in {"both", "first"}
              THEN posting1' = NextOf(p1) /\ p1' = RestOf(p1)
              ELSE UNCHANGED <<posting1, p1>>
           /\ IF branch \in {"both", "second"}
              THEN posting2' = NextOf(p2) /\ p2' = RestOf(p2)
              ELSE UNCHANGED <<posting2, p2>>
    /\ UNCHANGED <<in_a, in_b, mop, mpc>>
    /\ UNCHANGED OtherThanMerger

\* while posting1 or posting2
UnionContinuesWhileBoth(a, b) == a # NoPosting /\ b # NoPosting

UnionContinues(a, b) == a # NoPosting \/ b # NoPosting

\* Which iterator(s) one round of union yields from and advances.
UnionBranch(a, b) ==
    IF a # NoPosting /\ b # NoPosting /\ a[1] = b[1] THEN "both"
    ELSE IF (a # NoPosting /\ b # NoPosting /\ a[1] < b[1])
            \/ (a # NoPosting /\ b = NoPosting) THEN "first"
    ELSE "second"

\* One round of union's while loop.
UnionStep ==
    /\ mpc = "loop" /\ mop = "union"
    /\ UnionContinues(posting1, posting2)
    /\ LET branch == UnionBranch(posting1, posting2)
       IN  /\ merged' = Append(merged,
                  CASE branch = "both" -> <<posting1[1], Max(posting1[2], posting2[2])>>
                    [] branch = "first" -> posting1
                    [] branch = "second" -> posting2)
           /\ IF branch \in {"both", "first"}
              THEN posting1' = NextOf(p1) /\ p1' = RestOf(p1)
              ELSE UNCHANGED <<posting1, p1>>
           /\ IF branch \in {"both", "second"}
              THEN posting2' = NextOf(p2) /\ p2' = RestOf(p2)
              ELSE UNCHANGED <<posting2, p2>>
    /\ UNCHANGED <<in_a, in_b, mop, mpc>>
    /\ UNCHANGED OtherThanMerger

\* The while condition fails and the generator is exhausted.
MergeEnd ==
    /\ mpc = "loop"
    /\ IF mop = "intersection"
       THEN posting1 = NoPosting \/ posting2 = NoPosting
       ELSE ~UnionContinues(posting1, posting2)
    /\ mpc' = "done"
    /\ UNCHANGED <<in_a, in_b, mop, p1, p2, posting1, posting2, merged>>
    /\ UNCHANGED OtherThanMerger

MergerNext == MergeStart \/ IntersectionStep \/ UnionStep \/ MergeEnd

SpecMerger == MergerInit /\ [][MergerNext]_vars

\* ------------------------------------------------------- merger properties

Ids(s) == {s[k][1] : k \in 1..Len(s)}

StrictlyIncreasing(s) == \A i, j \in 1..Len(s) : i < j => s[i][1] < s[j][1]

\* C8: union yields exactly the document ids of either input, each once, in
\* strictly increasing order.
C8_UnionIds ==
    (mpc = "done" /\ mop = "union") =>
        /\ Ids(merged) = Ids(in_a) \cup Ids(in_b)
        /\ StrictlyIncreasing(merged)

\* Both inputs hold postings, they share a document id, and in_a ran out
\* while in_b still had postings to yield.
C8_Witness ==
    /\ mpc = "done" /\ mop = "union"
    /\ Ids(in_a) \cap Ids(in_b) # {}
    /\ in_a # <<>> /\ in_b # <<>>
    /\ \E d \in Ids(in_b) : \A e \in Ids(in_a) : e < d

\* C9: intersection yields exactly the document ids of both inputs, each
\* once, in strictly increasing order; so intersection(A, A) yields the ids
\* of A.
C9_IntersectionIds ==
    (mpc = "done" /\ mop = "intersection") =>
        /\ Ids(merged) = Ids(in_a) \cap Ids(in_b)
        /\ StrictlyIncreasing(merged)
        /\ (in_a = in_b => [k \in 1..Len(merged) |-> merged[k][1]]
                              = [k \in 1..Len(in_a) |-> in_a[k][1]])

\* An intersection of two different inputs yielded a posting after having
\* skipped postings of both inputs.
C9_Witness ==
    /\ mpc = "done" /\ mop = "intersection"
    /\ merged # <<>>
    /\ Ids(in_a) \ Ids(in_b) # {}
    /\ Ids(in_b) \ Ids(in_a) # {}

\* ------------------------------------------------ StringFinder termination

\* The longest path of the trie.
RECURSIVE MaxLen(_)
MaxLen(S) ==
    IF S = {} THEN 0
    ELSE LET e == CHOOSE x \in S : TRUE
             m == MaxLen(S \ {e})
         IN  IF Len(e) > m THEN Len(e) ELSE m

\* What a state can still cost the pass for one token: its own iteration and
\* those of the states appended below it, each deeper in the trie.
Weight(state) == 1 + MaxLen(trie) - Len(state[1])

\* The work left for the list iterator: the states it has not handed out.
RECURSIVE Pending(_, _)
Pending(list, k) ==
    IF k > Len(list) THEN 0 ELSE Weight(list[k]) + Pending(list, k + 1)

Stage(p) == CASE p = "for_token" -> 0 [] p = "for_state" -> 1
              [] p = "root" -> 2 [] p = "done" -> 3

\* Every step of the scan moves to a later token, to a later stage of the
\* same token, or leaves less work for the list iterator.
Progress ==
    \/ ti' > ti
    \/ ti' = ti /\ Stage(pc') > Stage(pc)
    \/ /\ ti' = ti /\ pc' = pc /\ pc = "for_state"
       /\ Pending(states', si' + 1) < Pending(states, si + 1)

\* What bounds that order, and what the scan has done when it stops: the
\* tokens are finite, no node lies deeper than the longest path of the trie,
\* the scan has a next step until it is done, and it is done only after the
\* last token.
ScanBounds ==
    /\ ti <= Len(Ranges(buffer)) + 1
    /\ \A k \in 1..Len(states) : Len(states[k][1]) <= MaxLen(trie)
    /\ (pc = "root" => ti <= Len(Ranges(buffer)))
    /\ pc \in {"for_token", "for_state", "root", "done"}
    /\ (pc = "done" => ti = Len(Ranges(buffer)) + 1)

\* C11: the scan terminates.  Every step makes progress in a well-founded
\* order (token, stage, work left for the list iterator, all bounded), so the
\* pass over the working list ends for every token although the list is
\* appended to and removed from while it is iterated, the list stays finite,
\* and the scan is done after the last token.
C11_ScanTerminates == ScanBounds /\ [][Progress /\ ScanBounds']_vars

\* The working list grew behind the list iterator while it was running: the
\* state appended for the current token is still to be handed out for that
\* same token.
C11_Witness ==
    /\ pc = "for_state"
    /\ si >= 1
    /\ si < Len(states)
    /\ \E k \in 1..si :
           /\ states[Len(states)][2] = states[k][2]
           /\ states[Len(states)][1] # NoNode
           /\ states[Len(states)][1] =
                  Consume(WalkTo(states[k][1], Tokens(buffer)[ti][1],
                                 Len(Tokens(buffer)[ti][1])), " ")

=============================================================================
